---- MODULE Spec2Model ----
(***************************************************************************)
(* A model of calacademy-research/img_getter:                              *)
(*   s3_server_utils.py  retry_s3_call and class S3Connection              *)
(*   fetch_images.py     copy_with_retry, save_image_with_retry,           *)
(*                       compress_image_quality, download_image_list       *)
(*                                                                         *)
(* The module holds several specifications over one set of variables; each *)
(* specification moves the variables of one part of the program and leaves *)
(* the others at their initial value.                                      *)
(*   SpecClient   one S3Connection: the retry wrapper, get_s3,             *)
(*                storage_exists, storage_download, remove_tempfile        *)
(*   SpecWrite    one call of copy_with_retry or save_image_with_retry     *)
(*                against the clock                                        *)
(*   SpecFetch    one run of download_image_list, with                     *)
(*                compress_image_quality inside it                         *)
(*   SpecCleanup  instances of S3Connection being constructed over one     *)
(*                s3_temp folder: cleanup_temp_folder                      *)
(*   SpecRelease  one constructed S3Connection whose cleanup_temp_folder   *)
(*                is called again: by hand, at exit, by its finalizer      *)
(*   SpecShared   an S3Connection constructed and released over an s3_temp *)
(*                folder that holds directories of live instances of       *)
(*                other processes                                          *)
(*   SpecRace     two runs of compress_image_quality, of two concurrent    *)
(*                download_image_list in one working directory, on the     *)
(*                same filename                                            *)
(*   SpecStream   s3_stream_response and the generator of stream, and the  *)
(*                context manager of storage_tempfile                      *)
(*   SpecKey      the object key download_image_list builds for a filename *)
(*                and storage_exists / storage_download send to the store  *)
(***************************************************************************)
EXTENDS Integers, Sequences, FiniteSets, TLC

VARIABLES
    \* ---- S3Connection (s3_server_utils.py) ----
    S3_ENDPOINT,   \* TRUE iff self.S3_ENDPOINT is set (remote store enabled)
    s3h,           \* self._s3: "None" or "Client"
    bucket,        \* the bucket on the remote store: "present" or "missing"
    bucketOk,      \* history: a head_bucket made through the handle succeeded
    fatal,         \* history: which critical "could not be created" was logged:
                   \* "create" (creation or the re-check failed), "head", "none"
    handed,        \* history: get_s3 returned the handle to a caller
    op,            \* the method the caller invoked
    pc,            \* position inside the call
    exc,           \* the exception in flight, "none" if none
    w,             \* the locals of the two retry_s3_call wrappers on the stack
    ret,           \* what the caller received
    TMP,           \* the files in self.TMP_FOLDER
    cur,           \* tmp_path of the running storage_download attempt
    failed,        \* history: files made by a storage_download attempt that failed
    rmErr,         \* history: files whose os.remove raised OSError
    \* ---- copy_with_retry / save_image_with_retry (fetch_images.py) ----
    clock,         \* time.time()
    cw,            \* the arguments and locals of the running call
    \* ---- download_image_list / compress_image_quality (fetch_images.py) ----
    rel_paths,     \* the list of leaf filenames (here 1, 2, ..)
    max_size_kb,   \* the budget in KB, -1 for None
    resize_to,     \* TRUE iff resize_to is not None
    quality,       \* the start quality
    idx,           \* the position of the for loop in rel_paths
    fpc,           \* position inside the iteration
    status,        \* "running", "returned" or "aborted" (an exception left the run)
    downloaded_files,
    out,           \* content of output_file_path, for the filename of the iteration
    s3tmp,         \* the filenames whose download is a file in TMP_FOLDER
    tmp_dir,       \* content of tmp_dir/<filename>, for the filename of the iteration
    img_quality,   \* compress_image_quality's img_quality
    enc,           \* history of the running compress_image_quality: passes made,
                   \* passes within the budget, quality and bytes of the last one,
                   \* how it returned, what its copy_with_retry returned
    written,       \* history: filenames whose destination this run wrote
    \* ---- __init__ / cleanup_temp_folder (s3_server_utils.py) ----
    time,          \* time.time()
    s3_temp,       \* the directories under s3_temp: whether there, and mtime
    inst,          \* per instance: its attributes, the locals of its running
                   \* cleanup_temp_folder, and the history of that scan: the
                   \* directories it removed and those whose rmtree raised;
                   \* who called the
                   \* running cleanup_temp_folder, which of its later callers
                   \* have called, how many of those calls returned, whether
                   \* the rmtree of its own TMP_FOLDER succeeded once, and
                   \* whether it raised in the last call
    \* ---- s3_stream_response / stream / storage_tempfile (s3_server_utils.py) ----
    object,        \* the length in bytes of the object under the key, in the store
    resp,          \* the call of s3_stream_response: position, the locals of its
                   \* wrapper, head['ContentLength'], the Content-Length header
                   \* of the response, what the caller received
    body,          \* obj["Body"]: its length, the read position, whether closed
    gen,           \* the generator stream(body) returned: its state, the chunks
                   \* it yielded (offset and length), the exception it raised
    ctx,           \* the context manager storage_tempfile(rel) returned: its
                   \* state, tmp_path, the exception it raised
    \* ---- the object key (fetch_images.py, s3_server_utils.py) ----
    \* strings are sequences of characters; "originals" stands for that word
    rel,           \* the leaf filename of the iteration
    collection,    \* the collection argument
    S3_PREFIX,     \* self.S3_PREFIX
    os_sep,        \* os.sep of the platform
    kpc,           \* position: "start", "probed", "downloaded"
    exists_key,    \* Key of the head_object storage_exists sent
    download_key,  \* the key of the download_file storage_download sent
    \* ---- instances of other processes over the same s3_temp ----
    live,          \* the directories under s3_temp that are the TMP_FOLDER of
                   \* an instance, of another process, that is still in use
    \* ---- concurrent runs of download_image_list in one directory ----
    tmp_resize_path, \* the file at tmp_dir/<filename>, which every run uses
    runs           \* per run: where it is in compress_image_quality, its
                   \* img_quality, its budget, its destination file

clientVars == <<S3_ENDPOINT, s3h, bucket, bucketOk, fatal, handed, op, pc, exc,
                w, ret, TMP, cur, failed, rmErr>>

writeVars == <<clock, cw>>

fetchVars == <<rel_paths, max_size_kb, resize_to, quality, idx, fpc, status,
               downloaded_files, out, s3tmp, tmp_dir, img_quality, enc, written>>

cleanupVars == <<time, s3_temp, inst>>

streamVars == <<object, resp, body, gen, ctx>>

keyVars == <<rel, collection, S3_PREFIX, os_sep, kpc, exists_key, download_key>>

vars == <<clientVars, writeVars, fetchVars, cleanupVars, streamVars, keyVars,
          live, tmp_resize_path, runs>>

\* what the actions of one part leave alone
notClient == <<writeVars, fetchVars, cleanupVars, streamVars, keyVars, live,
    tmp_resize_path, runs>>
notWrite == <<clientVars, fetchVars, cleanupVars, streamVars, keyVars, live,
    tmp_resize_path, runs>>
notFetch == <<clientVars, writeVars, cleanupVars, streamVars, keyVars, live,
    tmp_resize_path, runs>>
notCleanup == <<clientVars, writeVars, fetchVars, streamVars, keyVars, live,
    tmp_resize_path, runs>>
notKey == <<clientVars, writeVars, fetchVars, cleanupVars, streamVars, live,
    tmp_resize_path, runs>>
notStream == <<clientVars, writeVars, fetchVars, cleanupVars, keyVars, live,
    tmp_resize_path, runs>>

Min(a, b) == IF a < b THEN a ELSE b

---------------------------------------------------------------------------
(* Bounds *)

\* failures one wrapper is let to catch in one call (the loop has no limit)
MaxAttempt == 8
\* names mkstemp can draw in TMP_FOLDER
MaxFiles == 2
\* the clock when the write is called
MaxStart == 1
\* the largest delay and max_total_wait a write is called with
MaxDelay == 2
MaxWait == 3
\* the longest a failing attempt takes, and the longest time.sleep overruns
MaxDur == 2
MaxOversleep == 1
\* the longest list of filenames, the largest budget in KB, and the range of
\* start qualities around the floor
MaxKeys == 2
MaxBudget == 1
BelowFloor == 1
AboveFloor == 8
\* instances constructed, directories left in s3_temp by earlier instances,
\* their largest age, and the largest S3_URL_EXPIRY
MaxInstances == 1
MaxStale == 2
MaxAge == 3
MaxExpiry == 1
\* the most full chunks an object has
MaxFull == 1
\* the longest leaf filename, and the longest prefix and collection name
MaxName == 4
MaxSeg == 1
\* concurrent runs of download_image_list in one working directory
MaxRuns == 2
\* how far above the floor the quality of a concurrent run starts
MaxQuality == 2

---------------------------------------------------------------------------
(* retry_s3_call *)

BackoffStep == 10
BackoffCap == 60

\* botocore's ClientError, by the code of its response
ClientErrors == {"ClientError404", "ClientError403"}
\* the connection-level exceptions the wrapper names
TransientErrors == {"EndpointConnectionError", "ConnectionClosedError", "ReadTimeoutError"}
\* an exception of a remote call that the wrapper does not name
OtherErrors == {"ConnectTimeoutError"}
RemoteErrors == ClientErrors \cup TransientErrors \cup OtherErrors

\* the wrapper's locals delay and attempt, and the history of one call: the
\* sleeps made, the executions of the wrapped body, the last exception caught
\* and whether an exception other than the connection-level ones was caught
W0 == [delay |-> 0, attempt |-> 0, slept |-> <<>>, tries |-> 0,
       last |-> "none", other |-> FALSE]

Invoke(wl) == [wl EXCEPT !.tries = @ + 1]

\* the except clause of the wrapper: the exception types it catches
retry_catches_any(e) == TRUE
retry_catches(e) == e \in ClientErrors \cup TransientErrors

\* the handler: attempt += 1; time.sleep(delay); delay = min(delay + 10, 60)
retry_backoff_noCap(wl, e) ==
    [wl EXCEPT !.attempt = @ + 1,
               !.slept   = Append(@, wl.delay),
               !.delay   = wl.delay + BackoffStep,
               !.last    = e,
               !.other   = (@ \/ e \notin TransientErrors)]
retry_backoff(wl, e) ==
    [wl EXCEPT !.attempt = @ + 1,
               !.slept   = Append(@, wl.delay),
               !.delay   = Min(wl.delay + BackoffStep, BackoffCap),
               !.last    = e,
               !.other   = (@ \/ e \notin TransientErrors)]

---------------------------------------------------------------------------
(* copy_with_retry, save_image_with_retry *)

CW0 == [fn |-> "none", pc |-> "idle", start |-> 0, attempt |-> 0, delay |-> 0,
        max_total_wait |-> 0, elapsed |-> 0, prev |-> -1, gap |-> 0,
        result |-> "none"]

WriteIdle == clock = 0 /\ cw = CW0

WriteInit == clock \in 0..MaxStart /\ cw = CW0

\* if elapsed >= max_total_wait: ... return False
gives_up_late(elapsed, max_total_wait) == elapsed > max_total_wait
gives_up(elapsed, max_total_wait) == elapsed >= max_total_wait

\* start = time.time(); attempt = 1
write_call(fn) ==
    /\ cw.pc = "idle"
    /\ \E d \in 1..MaxDelay, m \in 0..MaxWait :
          cw' = [CW0 EXCEPT !.fn = fn, !.pc = "try", !.start = clock,
                            !.attempt = 1, !.delay = d, !.max_total_wait = m]
    /\ clock' = clock
    /\ UNCHANGED notWrite

\* one pass of the loop body: the write takes dur and either succeeds or
\* raises; on an exception elapsed is read off the clock
write_attempt(dur, ok) ==
    /\ cw.pc = "try"
    /\ clock' = clock + dur
    /\ IF ok
       THEN cw' = [cw EXCEPT !.pc = "done", !.result = "True"]
       ELSE LET elapsed == clock' - cw.start IN
            IF gives_up(elapsed, cw.max_total_wait)
            THEN cw' = [cw EXCEPT !.pc = "done", !.result = "False",
                                  !.elapsed = elapsed, !.gap = @ + dur]
            ELSE cw' = [cw EXCEPT !.pc = "sleep", !.elapsed = elapsed,
                                  !.gap = @ + dur]

copy_with_retry_attempt ==
    /\ cw.fn = "copy_with_retry"
    /\ \E dur \in 0..MaxDur, ok \in BOOLEAN : write_attempt(dur, ok)
    /\ UNCHANGED notWrite

save_image_with_retry_attempt ==
    /\ cw.fn = "save_image_with_retry"
    /\ \E dur \in 0..MaxDur, ok \in BOOLEAN : write_attempt(dur, ok)
    /\ UNCHANGED notWrite

\* time.sleep(delay); attempt += 1. The sleep lasts at least delay.
write_sleep ==
    /\ cw.pc = "sleep"
    /\ \E over \in 0..MaxOversleep :
          /\ clock' = clock + cw.delay + over
          /\ cw' = [cw EXCEPT !.pc = "try", !.attempt = @ + 1,
                              !.prev = cw.elapsed, !.gap = cw.delay + over]
    /\ UNCHANGED notWrite

WriteNext ==
    \/ \E fn \in {"copy_with_retry", "save_image_with_retry"} : write_call(fn)
    \/ copy_with_retry_attempt
    \/ save_image_with_retry_attempt
    \/ write_sleep

---------------------------------------------------------------------------
(* S3Connection.get_s3 *)

HeadBucket(b) ==
    (IF b = "present" THEN {"ok"} ELSE {"ClientError404"})
        \cup {"ClientError403"} \cup TransientErrors \cup OtherErrors

CreateBucket == {"ok", "ClientError403"} \cup TransientErrors \cup OtherErrors

\* logging.critical runs in the two except ClientError clauses only
Critical(e, where) == IF e \in ClientErrors THEN where ELSE "none"

Outcome(h, b, checked, res, crit) ==
    [h |-> h, b |-> b, checked |-> checked, res |-> res, crit |-> crit]

\* one execution of the body of get_s3: the outcomes it can have with the
\* handle h and the bucket b
get_s3_body(h, b) ==
    IF ~S3_ENDPOINT THEN {Outcome(h, b, FALSE, "RuntimeError", "none")}
    ELSE IF h # "None" THEN {Outcome(h, b, FALSE, "handle", "none")}
    ELSE
      \* self._s3 is assigned before the bucket is looked at
      LET first == HeadBucket(b) IN
        {Outcome("Client", b, TRUE, "handle", "none") : e \in first \cap {"ok"}}
      \cup
        {Outcome("Client", b, FALSE, e, Critical(e, "head")) :
            e \in first \ {"ok", "ClientError404"}}
      \cup
        (IF "ClientError404" \in first
         THEN {Outcome("Client", b, FALSE, c, Critical(c, "create")) :
                  c \in CreateBucket \ {"ok"}}
              \cup
              {Outcome("Client", "present", TRUE, "handle", "none")}
              \cup
              {Outcome("Client", "present", FALSE, e, Critical(e, "create")) :
                  e \in (HeadBucket("present") \cup {"ClientError404"}) \ {"ok"}}
         ELSE {})

---------------------------------------------------------------------------
(* S3Connection.remove_tempfile *)

\* os.remove either removes the file or raises OSError, which is logged
remove_tempfile_noop(files, f) == {[files |-> files, oserror |-> FALSE]}
remove_tempfile(files, f) ==
    IF f \in files
    THEN {[files |-> files \ {f}, oserror |-> FALSE],
          [files |-> files, oserror |-> TRUE]}
    ELSE {[files |-> files, oserror |-> FALSE]}

---------------------------------------------------------------------------
(* The client's calls *)

FileIds == 1..MaxFiles
Ops == {"get_s3", "storage_exists", "storage_download",
        "storage_save", "storage_delete", "storage_url"}
\* the methods that have an except clause of their own around the remote call
Guarded == {"storage_exists", "storage_download"}

ClientInit ==
    /\ S3_ENDPOINT \in BOOLEAN
    /\ s3h = "None"
    /\ bucket \in {"present", "missing"}
    /\ bucketOk = FALSE
    /\ fatal = "none"
    /\ handed = FALSE
    /\ op = "none"
    /\ pc = "idle"
    /\ exc = "none"
    /\ w = [l \in {"op", "gs"} |-> W0]
    /\ ret = "none"
    /\ TMP = {}
    /\ cur = 0
    /\ failed = {}
    /\ rmErr = {}

\* the caller invokes a wrapped method; a file a download returned earlier
\* stays in TMP_FOLDER until the caller releases it
Call(o) ==
    /\ pc \in {"idle", "done"}
    /\ op' = o
    /\ pc' = IF o = "get_s3" THEN "get_s3" ELSE "func"
    /\ w' = [l \in {"op", "gs"} |-> W0]
    /\ ret' = "none"
    /\ exc' = "none"
    /\ cur' = 0
    /\ UNCHANGED notClient
    /\ UNCHANGED <<S3_ENDPOINT, s3h, bucket, bucketOk, fatal, handed, TMP, failed, rmErr>>

\* the caller releases a downloaded file (s3.remove_tempfile(tmp_s3_path))
Release ==
    /\ pc = "done"
    /\ op = "storage_download"
    /\ ret = "path"
    /\ \E r \in remove_tempfile(TMP, cur) :
          /\ TMP' = r.files
          /\ rmErr' = IF r.oserror THEN rmErr \cup {cur} ELSE rmErr
    /\ ret' = "released"
    /\ UNCHANGED notClient
    /\ UNCHANGED <<S3_ENDPOINT, s3h, bucket, bucketOk, fatal, handed, op, pc, exc,
                   w, cur, failed>>

\* storage_exists up to its call of get_s3
storage_exists_begin ==
    /\ pc = "func"
    /\ op = "storage_exists"
    /\ IF S3_ENDPOINT
       THEN /\ pc' = "get_s3"
            /\ w' = [w EXCEPT !["op"] = Invoke(@), !["gs"] = W0]
            /\ ret' = ret
       ELSE /\ pc' = "done"
            /\ w' = [w EXCEPT !["op"] = Invoke(@)]
            /\ ret' = "False"
    /\ UNCHANGED notClient
    /\ UNCHANGED <<S3_ENDPOINT, s3h, bucket, bucketOk, fatal, handed, op, exc,
                   TMP, cur, failed, rmErr>>

\* storage_download up to its call of get_s3: mkstemp makes the file. Without
\* an endpoint the instance has no TMP_FOLDER and the attribute lookup raises.
storage_download_begin ==
    /\ pc = "func"
    /\ op = "storage_download"
    /\ IF S3_ENDPOINT
       THEN \E f \in FileIds \ TMP :
              /\ cur' = f
              /\ TMP' = TMP \cup {f}
              /\ pc' = "get_s3"
              /\ exc' = exc
              /\ failed' = failed \ {f}
              /\ w' = [w EXCEPT !["op"] = Invoke(@), !["gs"] = W0]
       ELSE /\ pc' = "raise"
            /\ exc' = "AttributeError"
            /\ w' = [w EXCEPT !["op"] = Invoke(@)]
            /\ UNCHANGED <<cur, TMP, failed>>
    /\ UNCHANGED notClient
    /\ UNCHANGED <<S3_ENDPOINT, s3h, bucket, bucketOk, fatal, handed, op, ret,
                   rmErr>>

\* one execution of get_s3's body inside its wrapper
get_s3_attempt ==
    /\ pc = "get_s3"
    /\ \E r \in get_s3_body(s3h, bucket) :
          /\ s3h' = r.h
          /\ bucket' = r.b
          /\ bucketOk' = (bucketOk \/ r.checked)
          /\ fatal' = IF r.crit # "none" THEN r.crit ELSE fatal
          /\ IF r.res = "handle"
             THEN /\ handed' = TRUE
                  /\ exc' = exc
                  /\ IF op = "get_s3"
                     THEN pc' = "done" /\ ret' = "handle"
                     ELSE pc' = "remote" /\ ret' = ret
             ELSE /\ handed' = handed
                  /\ exc' = r.res
                  /\ pc' = "gs_raise"
                  /\ ret' = ret
    /\ w' = [w EXCEPT !["gs"] = Invoke(@)]
    /\ UNCHANGED notClient
    /\ UNCHANGED <<S3_ENDPOINT, op, TMP, cur, failed, rmErr>>

\* the wrapper of get_s3 receives the exception of the body
get_s3_wrapper ==
    /\ pc = "gs_raise"
    /\ IF retry_catches(exc)
       THEN /\ w["gs"].attempt < MaxAttempt
            /\ w' = [w EXCEPT !["gs"] = retry_backoff(@, exc)]
            /\ pc' = "get_s3"
            /\ exc' = "none"
            /\ ret' = ret
       ELSE /\ w' = w
            /\ IF op = "get_s3"
               THEN pc' = "done" /\ ret' = exc /\ exc' = "none"
               ELSE /\ pc' = IF op \in Guarded THEN "except" ELSE "raise"
                    /\ ret' = ret /\ exc' = exc
    /\ UNCHANGED notClient
    /\ UNCHANGED <<S3_ENDPOINT, s3h, bucket, bucketOk, fatal, handed, op,
                   TMP, cur, failed, rmErr>>

\* storage_exists: head_object through the handle
storage_exists_remote ==
    /\ pc = "remote"
    /\ op = "storage_exists"
    /\ \E e \in {"ok"} \cup RemoteErrors :
          IF e = "ok"
          THEN pc' = "done" /\ ret' = "True" /\ exc' = exc
          ELSE pc' = "except" /\ ret' = ret /\ exc' = e
    /\ UNCHANGED notClient
    /\ UNCHANGED <<S3_ENDPOINT, s3h, bucket, bucketOk, fatal, handed, op, w,
                   TMP, cur, failed, rmErr>>

\* storage_exists: except ClientError: 404 is False, anything else is raised
storage_exists_except ==
    /\ pc = "except"
    /\ op = "storage_exists"
    /\ IF exc = "ClientError404"
       THEN pc' = "done" /\ ret' = "False" /\ exc' = "none"
       ELSE pc' = "raise" /\ ret' = ret /\ exc' = exc
    /\ UNCHANGED notClient
    /\ UNCHANGED <<S3_ENDPOINT, s3h, bucket, bucketOk, fatal, handed, op, w,
                   TMP, cur, failed, rmErr>>

\* storage_download: download_file through the handle
storage_download_remote ==
    /\ pc = "remote"
    /\ op = "storage_download"
    /\ \E e \in {"ok"} \cup RemoteErrors :
          IF e = "ok"
          THEN pc' = "done" /\ ret' = "path" /\ exc' = exc
          ELSE pc' = "except" /\ ret' = ret /\ exc' = e
    /\ UNCHANGED notClient
    /\ UNCHANGED <<S3_ENDPOINT, s3h, bucket, bucketOk, fatal, handed, op, w,
                   TMP, cur, failed, rmErr>>

\* storage_download: except Exception: remove_tempfile(tmp_path); raise
storage_download_except ==
    /\ pc = "except"
    /\ op = "storage_download"
    /\ \E r \in remove_tempfile(TMP, cur) :
          /\ TMP' = r.files
          /\ rmErr' = IF r.oserror THEN rmErr \cup {cur} ELSE rmErr
    /\ failed' = failed \cup {cur}
    /\ pc' = "raise"
    /\ UNCHANGED notClient
    /\ UNCHANGED <<S3_ENDPOINT, s3h, bucket, bucketOk, fatal, handed, op, exc, w,
                   ret, cur>>

\* storage_save up to its call of get_s3: file_object.seek(0)
storage_save_begin ==
    /\ pc = "func"
    /\ op = "storage_save"
    /\ pc' = "get_s3"
    /\ w' = [w EXCEPT !["op"] = Invoke(@), !["gs"] = W0]
    /\ UNCHANGED notClient
    /\ UNCHANGED <<S3_ENDPOINT, s3h, bucket, bucketOk, fatal, handed, op, exc, ret,
                   TMP, cur, failed, rmErr>>

\* storage_delete up to its call of get_s3; without an endpoint abort(404)
\* raises bottle's HTTPError
storage_delete_begin ==
    /\ pc = "func"
    /\ op = "storage_delete"
    /\ IF S3_ENDPOINT
       THEN /\ pc' = "get_s3"
            /\ w' = [w EXCEPT !["op"] = Invoke(@), !["gs"] = W0]
            /\ exc' = exc
       ELSE /\ pc' = "raise"
            /\ w' = [w EXCEPT !["op"] = Invoke(@)]
            /\ exc' = "HTTPError"
    /\ UNCHANGED notClient
    /\ UNCHANGED <<S3_ENDPOINT, s3h, bucket, bucketOk, fatal, handed, op, ret,
                   TMP, cur, failed, rmErr>>

\* storage_url up to its call of get_s3; without an endpoint it returns None
storage_url_begin ==
    /\ pc = "func"
    /\ op = "storage_url"
    /\ IF S3_ENDPOINT
       THEN /\ pc' = "get_s3"
            /\ w' = [w EXCEPT !["op"] = Invoke(@), !["gs"] = W0]
            /\ ret' = ret
       ELSE /\ pc' = "done"
            /\ w' = [w EXCEPT !["op"] = Invoke(@)]
            /\ ret' = "None"
    /\ UNCHANGED notClient
    /\ UNCHANGED <<S3_ENDPOINT, s3h, bucket, bucketOk, fatal, handed, op, exc,
                   TMP, cur, failed, rmErr>>

\* storage_save and storage_delete: put_object, delete_object through the
\* handle, with no except clause around them
storage_save_remote ==
    /\ pc = "remote"
    /\ op = "storage_save"
    /\ \E e \in {"ok"} \cup RemoteErrors :
          IF e = "ok"
          THEN pc' = "done" /\ ret' = "None" /\ exc' = exc
          ELSE pc' = "raise" /\ ret' = ret /\ exc' = e
    /\ UNCHANGED notClient
    /\ UNCHANGED <<S3_ENDPOINT, s3h, bucket, bucketOk, fatal, handed, op, w,
                   TMP, cur, failed, rmErr>>

storage_delete_remote ==
    /\ pc = "remote"
    /\ op = "storage_delete"
    /\ \E e \in {"ok"} \cup RemoteErrors :
          IF e = "ok"
          THEN pc' = "done" /\ ret' = "None" /\ exc' = exc
          ELSE pc' = "raise" /\ ret' = ret /\ exc' = e
    /\ UNCHANGED notClient
    /\ UNCHANGED <<S3_ENDPOINT, s3h, bucket, bucketOk, fatal, handed, op, w,
                   TMP, cur, failed, rmErr>>

\* storage_url: generate_presigned_url signs the request locally
storage_url_remote ==
    /\ pc = "remote"
    /\ op = "storage_url"
    /\ pc' = "done"
    /\ ret' = "url"
    /\ UNCHANGED notClient
    /\ UNCHANGED <<S3_ENDPOINT, s3h, bucket, bucketOk, fatal, handed, op, exc, w,
                   TMP, cur, failed, rmErr>>

\* the wrapper of the method receives the exception of the method
method_wrapper ==
    /\ pc = "raise"
    /\ IF retry_catches(exc)
       THEN /\ w["op"].attempt < MaxAttempt
            /\ w' = [w EXCEPT !["op"] = retry_backoff(@, exc)]
            /\ pc' = "func"
            /\ exc' = "none"
            /\ ret' = ret
       ELSE /\ w' = w
            /\ pc' = "done"
            /\ ret' = exc
            /\ exc' = "none"
    /\ UNCHANGED notClient
    /\ UNCHANGED <<S3_ENDPOINT, s3h, bucket, bucketOk, fatal, handed, op,
                   TMP, cur, failed, rmErr>>

ClientNext ==
    \/ \E o \in Ops : Call(o)
    \/ Release
    \/ storage_exists_begin
    \/ storage_download_begin
    \/ get_s3_attempt
    \/ get_s3_wrapper
    \/ storage_exists_remote
    \/ storage_exists_except
    \/ storage_download_remote
    \/ storage_download_except
    \/ storage_save_begin
    \/ storage_delete_begin
    \/ storage_url_begin
    \/ storage_save_remote
    \/ storage_delete_remote
    \/ storage_url_remote
    \/ method_wrapper

---------------------------------------------------------------------------
(* compress_image_quality, download_image_list *)

QualityFloor == 20
CoarseStep == 5
FineStep == 1
CoarseMargin == 300
KB == 1024

\* a file's content: <<"none", 0>> for no file, <<"old_small", 0>> and
\* <<"old_big", 0>> for a file of an earlier run (within the budget or not),
\* <<"raw", 0>> for the downloaded bytes, <<"resized", q>> and <<"jpeg", q>>
\* for the image encoded at quality q
NoFile == <<"none", 0>>
Unseen == <<"unseen", 0>>
IsFile(c) == c[1] \notin {"none", "unseen"}

ENC0 == [passes |-> 0, fits |-> 0, lastq |-> 0, lastBytes |-> 0,
         how |-> "none", ok |-> "none", pre |-> NoFile, rm |-> "none"]

\* the encoded sizes tried, in bytes: at and just over the budget, at and just
\* over the budget plus 300 KB
Sizes(max) == {max * KB, max * KB + 1,
               (max + CoarseMargin) * KB, (max + CoarseMargin) * KB + 1}

\* current_size_kb = os.path.getsize(tmp_file_path) / 1024
\* if current_size_kb <= max_size_kb
within_budget_strict(bytes, max) == bytes < max * KB
within_budget(bytes, max) == bytes <= max * KB

\* if current_size_kb > (max_size_kb + 300): img_quality -= 5 else: img_quality -= 1
next_quality_up(q, bytes, max) == q + FineStep
next_quality_fine(q, bytes, max) == q - FineStep
next_quality(q, bytes, max) ==
    IF bytes > (max + CoarseMargin) * KB THEN q - CoarseStep ELSE q - FineStep

\* what copy_with_retry can return and leave at the destination: with no
\* source file every attempt raises and it gives up
copy_with_retry(src, dst) ==
    IF IsFile(src)
    THEN {[ok |-> TRUE, dst |-> src], [ok |-> FALSE, dst |-> dst]}
    ELSE {[ok |-> FALSE, dst |-> dst]}

\* what save_image_with_retry can return and leave at the destination
save_image_with_retry(q, dst) ==
    {[ok |-> TRUE, dst |-> <<"resized", q>>], [ok |-> FALSE, dst |-> dst]}

\* try: os.remove(tmp_file_path) except OSError: pass
os_remove(c) == IF IsFile(c) THEN {NoFile, c} ELSE {c}

skip_existing_file(c, max) ==
    \/ c[1] \in {"old_small", "old_big"} /\ max < 0
    \/ c[1] = "old_small"

\* what the wrapped storage_exists and storage_download hand to their caller:
\* a value, or an exception the wrapper does not catch
storage_exists_results == {"True", "False"} \cup {e \in RemoteErrors : ~retry_catches(e)}
storage_download_results == {"path"} \cup {e \in RemoteErrors : ~retry_catches(e)}

Key == rel_paths[idx]

FetchIdle ==
    /\ rel_paths = <<>>
    /\ max_size_kb = -1
    /\ resize_to = FALSE
    /\ quality = 0
    /\ idx = 1
    /\ fpc = "probe"
    /\ status = "running"
    /\ downloaded_files = <<>>
    /\ out = Unseen
    /\ s3tmp = {}
    /\ tmp_dir = NoFile
    /\ img_quality = 0
    /\ enc = ENC0
    /\ written = {}

FetchInit ==
    /\ \E n \in 0..MaxKeys : rel_paths = [i \in 1..n |-> i]
    /\ max_size_kb \in {-1} \cup 1..MaxBudget
    /\ resize_to \in BOOLEAN
    /\ quality \in (QualityFloor - BelowFloor)..(QualityFloor + AboveFloor)
    /\ idx = 1
    /\ fpc = "probe"
    /\ status = "running"
    /\ downloaded_files = <<>>
    /\ out = Unseen
    /\ s3tmp = {}
    /\ tmp_dir = NoFile
    /\ img_quality = 0
    /\ enc = ENC0
    /\ written = {}

Running == status = "running" /\ idx <= Len(rel_paths)

\* the for loop takes the next filename: the paths and locals of the
\* iteration are those of another file
NextKey ==
    /\ idx' = idx + 1
    /\ fpc' = "probe"
    /\ out' = Unseen
    /\ tmp_dir' = NoFile
    /\ img_quality' = 0
    /\ enc' = ENC0

\* if not s3.storage_exists(rel_key): continue -- outside the try
probe ==
    /\ Running /\ fpc = "probe"
    /\ \E r \in storage_exists_results :
          CASE r = "True"  -> /\ fpc' = "download"
                              /\ UNCHANGED <<idx, status, out, tmp_dir, img_quality, enc>>
            [] r = "False" -> NextKey /\ status' = status
            [] OTHER       -> /\ fpc' = "end"
                              /\ status' = "aborted"
                              /\ UNCHANGED <<idx, out, tmp_dir, img_quality, enc>>
    /\ UNCHANGED <<rel_paths, max_size_kb, resize_to, quality, downloaded_files,
                   s3tmp, written>>
    /\ UNCHANGED notFetch

\* tmp_s3_path = s3.storage_download(rel_key); an exception goes to the except
\* clause of the iteration
download ==
    /\ Running /\ fpc = "download"
    /\ \E r \in storage_download_results :
          IF r = "path"
          THEN /\ fpc' = "skip"
               /\ s3tmp' = s3tmp \cup {Key}
               /\ UNCHANGED <<idx, out, tmp_dir, img_quality, enc>>
          ELSE NextKey /\ s3tmp' = s3tmp
    /\ UNCHANGED <<rel_paths, max_size_kb, resize_to, quality, status,
                   downloaded_files, written>>
    /\ UNCHANGED notFetch

\* skip_existing_file, then the choice of the path; the output folder holds
\* for this filename nothing or a file of an earlier run
skip_check ==
    /\ Running /\ fpc = "skip"
    /\ \E pre \in {NoFile, <<"old_small", 0>>, <<"old_big", 0>>} :
          IF skip_existing_file(pre, max_size_kb)
          THEN /\ \E r \in remove_tempfile(s3tmp, Key) : s3tmp' = r.files
               /\ NextKey
          ELSE /\ s3tmp' = s3tmp
               /\ out' = pre
               /\ fpc' = IF max_size_kb < 0 /\ ~resize_to THEN "copy" ELSE "open"
               /\ UNCHANGED <<idx, tmp_dir, img_quality, enc>>
    /\ UNCHANGED <<rel_paths, max_size_kb, resize_to, quality, status,
                   downloaded_files, written>>
    /\ UNCHANGED notFetch

\* the download-only path: copy_with_retry, remove_tempfile, and the append
\* under if ok
download_only ==
    /\ Running /\ fpc = "copy"
    /\ \E c \in copy_with_retry(IF Key \in s3tmp THEN <<"raw", 0>> ELSE NoFile, out) :
          /\ downloaded_files' = IF c.ok THEN Append(downloaded_files, Key)
                                         ELSE downloaded_files
          /\ written' = IF c.ok THEN written \cup {Key} ELSE written
    /\ \E r \in remove_tempfile(s3tmp, Key) : s3tmp' = r.files
    /\ NextKey
    /\ UNCHANGED <<rel_paths, max_size_kb, resize_to, quality, status>>
    /\ UNCHANGED notFetch

\* with Image.open(tmp_s3_path) as image, image.resize(resize_to): either
\* raises, and the except clause of the iteration goes on to the next filename
open_image ==
    /\ Running /\ fpc = "open"
    /\ \E raised \in BOOLEAN :
          IF raised
          THEN NextKey
          ELSE /\ UNCHANGED <<idx, out, tmp_dir>>
               /\ IF max_size_kb >= 0
                  THEN /\ fpc' = "encode"
                       /\ img_quality' = quality
                       /\ enc' = [ENC0 EXCEPT !.pre = out]
                  ELSE fpc' = "save" /\ UNCHANGED <<img_quality, enc>>
    /\ UNCHANGED <<rel_paths, max_size_kb, resize_to, quality, status,
                   downloaded_files, s3tmp, written>>
    /\ UNCHANGED notFetch

\* the resize-only path: save_image_with_retry
resize_only ==
    /\ Running /\ fpc = "save"
    /\ \E c \in save_image_with_retry(quality, out) :
          /\ out' = c.dst
          /\ written' = IF c.ok THEN written \cup {Key} ELSE written
    /\ fpc' = "finish"
    /\ UNCHANGED <<rel_paths, max_size_kb, resize_to, quality, idx, status,
                   downloaded_files, s3tmp, tmp_dir, img_quality, enc>>
    /\ UNCHANGED notFetch

\* one pass of compress_image_quality's loop: image.save to tmp_file_path (an
\* exception leaves compress_image_quality for the except clause of the
\* iteration), the size test, the decrement
compress_encode ==
    /\ Running /\ fpc = "encode"
    /\ img_quality > QualityFloor
    /\ \/ NextKey
       \/ \E bytes \in Sizes(max_size_kb) :
             /\ tmp_dir' = <<"jpeg", img_quality>>
             /\ enc' = [enc EXCEPT !.passes = @ + 1,
                                   !.fits = IF bytes <= max_size_kb * 1024
                                            THEN @ + 1 ELSE @,
                                   !.lastq = img_quality,
                                   !.lastBytes = bytes]
             /\ UNCHANGED <<idx, out>>
             /\ IF within_budget(bytes, max_size_kb)
                THEN fpc' = "fit" /\ img_quality' = img_quality
                ELSE /\ fpc' = "encode"
                     /\ img_quality' = next_quality(img_quality, bytes, max_size_kb)
    /\ UNCHANGED <<rel_paths, max_size_kb, resize_to, quality, status,
                   downloaded_files, s3tmp, written>>
    /\ UNCHANGED notFetch

\* the end of compress_image_quality on either way out: copy_with_retry to
\* the destination, os.remove(tmp_file_path), return
compress_return(how) ==
    /\ \E c \in copy_with_retry(tmp_dir, out), t \in os_remove(tmp_dir) :
          /\ out' = c.dst
          /\ written' = IF c.ok THEN written \cup {Key} ELSE written
          /\ tmp_dir' = t
          /\ enc' = [enc EXCEPT !.how = how,
                                !.ok = IF c.ok THEN "True" ELSE "False",
                                !.rm = IF IsFile(t) THEN "OSError" ELSE "removed"]
    /\ fpc' = "finish"
    /\ UNCHANGED <<rel_paths, max_size_kb, resize_to, quality, idx, status,
                   downloaded_files, s3tmp, img_quality>>
    /\ UNCHANGED notFetch

\* the pass is within the budget
compress_fit ==
    /\ Running /\ fpc = "fit"
    /\ compress_return("fit")

\* the loop ended at the floor: the best-effort copy
compress_floor ==
    /\ Running /\ fpc = "encode"
    /\ ~(img_quality > QualityFloor)
    /\ compress_return("floor")

\* after the with block: s3.remove_tempfile(tmp_s3_path);
\* downloaded_files.append(output_file_path)
finish ==
    /\ Running /\ fpc = "finish"
    /\ \E r \in remove_tempfile(s3tmp, Key) : s3tmp' = r.files
    /\ downloaded_files' = Append(downloaded_files, Key)
    /\ NextKey
    /\ UNCHANGED <<rel_paths, max_size_kb, resize_to, quality, status, written>>
    /\ UNCHANGED notFetch

\* return downloaded_files
return_list ==
    /\ status = "running" /\ idx > Len(rel_paths)
    /\ status' = "returned"
    /\ fpc' = "end"
    /\ UNCHANGED <<rel_paths, max_size_kb, resize_to, quality, idx,
                   downloaded_files, out, s3tmp, tmp_dir, img_quality, enc, written>>
    /\ UNCHANGED notFetch

FetchNext ==
    \/ probe
    \/ download
    \/ skip_check
    \/ download_only
    \/ open_image
    \/ resize_only
    \/ compress_encode
    \/ compress_fit
    \/ compress_floor
    \/ finish
    \/ return_list

---------------------------------------------------------------------------
(* S3Connection.__init__, S3Connection.cleanup_temp_folder *)

AgeFactor == 2

Instances == 1..MaxInstances
StaleDirs == 1..MaxStale
\* the directory uuid4 names for instance i
OwnDir(i) == MaxStale + i
DirIds == 1..(MaxStale + MaxInstances)

I0 == [st |-> "unborn", enabled |-> FALSE, S3_URL_EXPIRY |-> 0, TMP_FOLDER |-> 0,
       listing |-> {}, now |-> 0, max_age |-> 0, full_path |-> 0,
       removed |-> {}, failed |-> {},
       caller |-> "__init__", fired |-> {}, returned |-> 0,
       own_removed |-> FALSE, own_failed |-> FALSE]

CleanupIdle ==
    /\ time = 0
    /\ s3_temp = [d \in DirIds |-> [exists |-> FALSE, mtime |-> 0]]
    /\ inst = [i \in Instances |-> I0]

\* s3_temp holds directories that earlier instances left behind
CleanupInit ==
    /\ time = 0
    /\ \E left \in SUBSET StaleDirs :
          \E age \in [left -> 0..MaxAge] :
             s3_temp = [d \in DirIds |->
                          IF d \in left THEN [exists |-> TRUE, mtime |-> 0 - age[d]]
                                        ELSE [exists |-> FALSE, mtime |-> 0]]
    /\ inst = [i \in Instances |-> I0]

\* os.listdir gives the names in some order; the directories being alike,
\* the loop is followed in the order of their numbers
First(names) == CHOOSE d \in names : \A e \in names : d <= e

\* if age > max_age and os.path.isdir(full_path)
is_stale_inclusive(age, max_age) == age >= max_age
is_stale(age, max_age) == age > max_age

\* max_age = 2 * int(getattr(self, 'S3_URL_EXPIRY', 3600))
max_age_of(expiry) == AgeFactor * expiry

\* an instance of another process reclaims a directory that was left behind
\* (its own scan, lines 96-98, run in that process)
sibling_removed(d) ==
    /\ d \in StaleDirs
    /\ s3_temp[d].exists
    /\ s3_temp' = [s3_temp EXCEPT ![d].exists = FALSE]
    /\ UNCHANGED <<time, inst>>
    /\ UNCHANGED notCleanup

\* __init__ up to its call of cleanup_temp_folder: with an endpoint the
\* expiry is read from the environment, without one it is 0; TMP_FOLDER is
\* not yet set, so the first try block of cleanup_temp_folder does nothing
construct(i) ==
    /\ inst[i].st = "unborn"
    /\ \E en \in BOOLEAN, e \in 1..MaxExpiry :
          inst' = [inst EXCEPT ![i] = [@ EXCEPT !.st = "listdir",
                                               !.enabled = en,
                                               !.S3_URL_EXPIRY = IF en THEN e ELSE 0]]
    /\ UNCHANGED <<time, s3_temp>>
    /\ UNCHANGED notCleanup

\* now = time.time(); max_age = ...; for name in os.listdir(base_folder)
scan_listdir(i) ==
    /\ inst[i].st = "listdir"
    /\ LET names == {d \in DirIds : s3_temp[d].exists} IN
       inst' = [inst EXCEPT ![i] = [@ EXCEPT !.st = "scan",
                                            !.now = time,
                                            !.max_age = max_age_of(inst[i].S3_URL_EXPIRY),
                                            !.listing = names]]
    /\ UNCHANGED <<time, s3_temp>>
    /\ UNCHANGED notCleanup

\* one pass of the for loop up to the rmtree: the own directory is skipped,
\* getmtime of a directory that is gone raises FileNotFoundError (continue)
scan_stat(i) ==
    /\ inst[i].st = "scan"
    /\ inst[i].listing # {}
    /\ LET d == First(inst[i].listing)
           rest == inst[i].listing \ {d} IN
          IF d = inst[i].TMP_FOLDER
          THEN inst' = [inst EXCEPT ![i] = [@ EXCEPT !.listing = rest]]
          ELSE IF ~s3_temp[d].exists
          THEN inst' = [inst EXCEPT ![i] = [@ EXCEPT !.listing = rest]]
          ELSE IF is_stale(inst[i].now - s3_temp[d].mtime, inst[i].max_age)
          THEN inst' = [inst EXCEPT ![i] = [@ EXCEPT !.listing = rest,
                                                     !.st = "rmtree",
                                                     !.full_path = d]]
          ELSE inst' = [inst EXCEPT ![i] = [@ EXCEPT !.listing = rest]]
    /\ UNCHANGED <<time, s3_temp>>
    /\ UNCHANGED notCleanup

\* shutil.rmtree(full_path): it removes the directory, or the directory is
\* gone by now (FileNotFoundError: continue), or it raises something else
\* (logged, and the loop goes on)
scan_rmtree(i) ==
    /\ inst[i].st = "rmtree"
    /\ LET d == inst[i].full_path IN
       IF ~s3_temp[d].exists
       THEN /\ inst' = [inst EXCEPT ![i] = [@ EXCEPT !.st = "scan", !.full_path = 0]]
            /\ s3_temp' = s3_temp
       ELSE \/ /\ s3_temp' = [s3_temp EXCEPT ![d].exists = FALSE]
               /\ inst' = [inst EXCEPT ![i] = [@ EXCEPT !.st = "scan", !.full_path = 0,
                                                       !.removed = @ \cup {d}]]
            \/ /\ s3_temp' = s3_temp
               /\ inst' = [inst EXCEPT ![i] = [@ EXCEPT !.st = "scan", !.full_path = 0,
                                                       !.failed = @ \cup {d}]]
    /\ UNCHANGED time
    /\ UNCHANGED notCleanup

\* the scan is over and __init__ goes on: with an endpoint it sets TMP_FOLDER
\* and makes the directory
construct_done(i) ==
    /\ inst[i].st = "scan"
    /\ inst[i].listing = {}
    /\ inst[i].caller = "__init__"
    /\ IF inst[i].enabled
       THEN /\ inst' = [inst EXCEPT ![i] = [@ EXCEPT !.st = "live",
                                                    !.TMP_FOLDER = OwnDir(i)]]
            /\ s3_temp' = [s3_temp EXCEPT ![OwnDir(i)] =
                              [exists |-> TRUE, mtime |-> time]]
       ELSE /\ inst' = [inst EXCEPT ![i] = [@ EXCEPT !.st = "live"]]
            /\ s3_temp' = s3_temp
    /\ UNCHANGED time
    /\ UNCHANGED notCleanup

CleanupNext ==
    \/ \E d \in StaleDirs : sibling_removed(d)
    \/ \E i \in Instances : construct(i)
    \/ \E i \in Instances : scan_listdir(i)
    \/ \E i \in Instances : scan_stat(i)
    \/ \E i \in Instances : scan_rmtree(i)
    \/ \E i \in Instances : construct_done(i)

\* the later callers of cleanup_temp_folder: the owner of the instance, the
\* atexit hook and the weakref finalizer registered by __init__
Triggers == {"teardown", "atexit", "finalize"}

\* the one instance whose release is followed
Releaser == 1

\* a constructed instance, with its TMP_FOLDER if it has an endpoint, among
\* directories that other instances left behind
ReleaseInit ==
    /\ time = 0
    /\ \E en \in BOOLEAN, e \in 1..MaxExpiry :
          /\ inst = [i \in Instances |->
                       IF i = Releaser
                       THEN [I0 EXCEPT !.st = "live", !.enabled = en,
                                       !.S3_URL_EXPIRY = IF en THEN e ELSE 0,
                                       !.TMP_FOLDER = IF en THEN OwnDir(i) ELSE 0]
                       ELSE I0]
          /\ \E left \in SUBSET StaleDirs :
                \E age \in [left -> 0..MaxAge] :
                   s3_temp = [d \in DirIds |->
                                IF d \in left
                                THEN [exists |-> TRUE, mtime |-> 0 - age[d]]
                                ELSE [exists |-> en /\ d = OwnDir(Releaser),
                                      mtime |-> 0]]

\* except Exception as e: logging.warning(...)
cleanup_catches_not_found(e) == e = "FileNotFoundError"
cleanup_catches(e) == TRUE

\* a later call of cleanup_temp_folder, first try block: if the instance has
\* a TMP_FOLDER and it is a directory, rmtree it; an exception is logged
cleanup_temp_folder_own(i, t) ==
    /\ inst[i].st = "live"
    /\ t \in Triggers \ inst[i].fired
    /\ LET own == inst[i].TMP_FOLDER
           called == [inst[i] EXCEPT !.caller = t, !.fired = @ \cup {t}] IN
       IF own # 0 /\ s3_temp[own].exists
       THEN \E e \in {"ok", "OSError"} :
               IF e = "ok"
               THEN /\ s3_temp' = [s3_temp EXCEPT ![own].exists = FALSE]
                    /\ inst' = [inst EXCEPT ![i] =
                                  [called EXCEPT !.st = "listdir",
                                                 !.own_removed = TRUE,
                                                 !.own_failed = FALSE]]
               ELSE /\ s3_temp' = s3_temp
                    /\ inst' = [inst EXCEPT ![i] =
                                  [called EXCEPT !.st = IF cleanup_catches(e)
                                                        THEN "listdir" ELSE "raised",
                                                 !.own_failed = TRUE]]
       ELSE /\ s3_temp' = s3_temp
            /\ inst' = [inst EXCEPT ![i] = [called EXCEPT !.st = "listdir",
                                                          !.own_failed = FALSE]]
    /\ UNCHANGED time
    /\ UNCHANGED notCleanup

\* the scan of a later call is over: cleanup_temp_folder returns
cleanup_temp_folder_return(i) ==
    /\ inst[i].st = "scan"
    /\ inst[i].listing = {}
    /\ inst[i].caller # "__init__"
    /\ inst' = [inst EXCEPT ![i] = [@ EXCEPT !.st = "live", !.returned = @ + 1]]
    /\ UNCHANGED <<time, s3_temp>>
    /\ UNCHANGED notCleanup

ReleaseNext ==
    \/ \E d \in StaleDirs : sibling_removed(d)
    \/ \E t \in Triggers : cleanup_temp_folder_own(Releaser, t)
    \/ \E i \in Instances : scan_listdir(i)
    \/ \E i \in Instances : scan_stat(i)
    \/ \E i \in Instances : scan_rmtree(i)
    \/ cleanup_temp_folder_return(Releaser)

---------------------------------------------------------------------------
(* Instances of several processes over one s3_temp folder *)

SharedIdle == live = {}

\* some of the directories found under s3_temp belong to instances that
\* other processes still use
SharedInit ==
    /\ CleanupInit
    /\ live \in SUBSET {d \in StaleDirs : s3_temp[d].exists}

\* the process that owns directory d ends with its instance: its own
\* cleanup_temp_folder removes the directory if it is still there
owner_release(d) ==
    /\ d \in live
    /\ live' = live \ {d}
    /\ s3_temp' = [s3_temp EXCEPT ![d].exists = FALSE]
    /\ UNCHANGED <<time, inst>>
    /\ UNCHANGED <<clientVars, writeVars, fetchVars, streamVars, keyVars,
                   tmp_resize_path, runs>>

SharedNext ==
    \/ \E d \in StaleDirs : owner_release(d)
    \/ \E i \in Instances : construct(i)
    \/ \E i \in Instances : scan_listdir(i)
    \/ \E i \in Instances : scan_stat(i)
    \/ \E i \in Instances : scan_rmtree(i)
    \/ \E i \in Instances : construct_done(i)
    \/ \E i \in Instances, t \in Triggers : cleanup_temp_folder_own(i, t)
    \/ \E i \in Instances : cleanup_temp_folder_return(i)

---------------------------------------------------------------------------
(* compress_image_quality in concurrent runs of download_image_list *)

notRace == <<clientVars, writeVars, fetchVars, cleanupVars, streamVars,
             keyVars, live>>

RaceIdle == tmp_resize_path = NoFile /\ runs = <<>>

\* tmp_dir = "tmp_dir" and tmp_resize_path = os.path.join(tmp_dir, filename)
\* are the same path in every run of one working directory; each run has
\* its own image, budget, starting quality and output_file_path
RaceInit ==
    /\ tmp_resize_path = NoFile
    /\ runs \in [1..MaxRuns -> [pc : {"while"},
                          img_quality : QualityFloor..(QualityFloor + MaxQuality),
                          max_size_kb : 1..MaxBudget,
                          fit : {FALSE},
                          ok : {"none"},
                          output_file_path : {Unseen}]]

\* image.save(tmp_file_path, "JPEG", quality=img_quality, ...)
run_save(r) ==
    /\ runs[r].pc = "while"
    /\ runs[r].img_quality > QualityFloor
    /\ \E bytes \in Sizes(runs[r].max_size_kb) :
          tmp_resize_path' = <<"jpeg", r, runs[r].img_quality, bytes>>
    /\ runs' = [runs EXCEPT ![r].pc = "getsize"]
    /\ UNCHANGED notRace

\* current_size_kb = os.path.getsize(tmp_file_path) / 1024 and the two tests
\* on it; with no file at the path getsize raises out of the function
run_getsize(r) ==
    /\ runs[r].pc = "getsize"
    /\ IF ~IsFile(tmp_resize_path)
       THEN runs' = [runs EXCEPT ![r].pc = "raised"]
       ELSE LET bytes == tmp_resize_path[4]
                max == runs[r].max_size_kb
            IN  IF within_budget(bytes, max)
                THEN runs' = [runs EXCEPT ![r].pc = "copy", ![r].fit = TRUE]
                ELSE runs' = [runs EXCEPT
                                ![r].pc = "while",
                                ![r].img_quality =
                                    next_quality(runs[r].img_quality, bytes, max)]
    /\ UNCHANGED tmp_resize_path
    /\ UNCHANGED notRace

\* while img_quality > 20 is over: the best-effort copy is next
run_floor(r) ==
    /\ runs[r].pc = "while"
    /\ ~(runs[r].img_quality > QualityFloor)
    /\ runs' = [runs EXCEPT ![r].pc = "copy"]
    /\ UNCHANGED tmp_resize_path
    /\ UNCHANGED notRace

\* ok = copy_with_retry(tmp_file_path, output_file_path, ...)
run_copy(r) ==
    /\ runs[r].pc = "copy"
    /\ \E c \in copy_with_retry(tmp_resize_path, runs[r].output_file_path) :
          runs' = [runs EXCEPT ![r].pc = "remove",
                               ![r].ok = IF c.ok THEN "True" ELSE "False",
                               ![r].output_file_path = c.dst]
    /\ UNCHANGED tmp_resize_path
    /\ UNCHANGED notRace

\* try: os.remove(tmp_file_path) except OSError: pass; return
run_remove(r) ==
    /\ runs[r].pc = "remove"
    /\ \E t \in os_remove(tmp_resize_path) : tmp_resize_path' = t
    /\ runs' = [runs EXCEPT ![r].pc = "return"]
    /\ UNCHANGED notRace

RaceNext ==
    \/ \E r \in 1..MaxRuns : run_save(r)
    \/ \E r \in 1..MaxRuns : run_getsize(r)
    \/ \E r \in 1..MaxRuns : run_floor(r)
    \/ \E r \in 1..MaxRuns : run_copy(r)
    \/ \E r \in 1..MaxRuns : run_remove(r)

---------------------------------------------------------------------------
(* S3Connection.s3_stream_response, stream, storage_tempfile *)

\* self.chunk_size = 64 * 1024
chunk_size == 64 * 1024

\* the lengths an object has: whole chunks, and one byte more
ObjectSizes == {k * chunk_size + r : k \in 0..MaxFull, r \in {0, 1}}

RESP0 == [pc |-> "idle", w |-> W0, exc |-> "none", head |-> -1,
          content_length |-> -1, ret |-> "none"]
BODY0 == [len |-> -1, pos |-> 0, closed |-> FALSE]
GEN0 == [st |-> "none", chunks |-> <<>>, exc |-> "none"]
CTX0 == [pc |-> "idle", tries |-> 0, tmp_path |-> "none", exc |-> "none"]

StreamIdle ==
    /\ object = 0
    /\ resp = RESP0
    /\ body = BODY0
    /\ gen = GEN0
    /\ ctx = CTX0

StreamInit ==
    /\ object \in ObjectSizes
    /\ resp = RESP0
    /\ body = BODY0
    /\ gen = GEN0
    /\ ctx = CTX0

\* another client of the store puts an object of another length under the
\* key while the response is being built (what the store holds before the
\* call is drawn at the start, and nothing reads it after get_object)
overwrite ==
    /\ resp.pc \in {"head", "get", "raise"}
    /\ \E n \in ObjectSizes \ {object} : object' = n
    /\ UNCHANGED <<resp, body, gen, ctx>>
    /\ UNCHANGED notStream

\* the caller invokes s3_stream_response: the wrapper runs the body
s3_stream_response_call ==
    /\ resp.pc = "idle"
    /\ resp' = [RESP0 EXCEPT !.pc = "head", !.w = Invoke(W0)]
    /\ UNCHANGED <<object, body, gen, ctx>>
    /\ UNCHANGED notStream

\* s3 = self.get_s3(); head = s3.head_object(...): get_s3 is wrapped itself
\* and lets out only what its wrapper does not catch
s3_stream_response_head ==
    /\ resp.pc = "head"
    /\ \E e \in {"ok"} \cup RemoteErrors :
          IF e = "ok"
          THEN resp' = [resp EXCEPT !.pc = "get", !.head = object]
          ELSE resp' = [resp EXCEPT !.pc = "raise", !.exc = e]
    /\ UNCHANGED <<object, body, gen, ctx>>
    /\ UNCHANGED notStream

\* obj = s3.get_object(...); body = obj["Body"]; the response is made around
\* self.stream(body=body), whose wrapper returns the generator unstarted;
\* Content-Length is set from head
s3_stream_response_get ==
    /\ resp.pc = "get"
    /\ \E e \in {"ok"} \cup RemoteErrors :
          IF e = "ok"
          THEN /\ body' = [BODY0 EXCEPT !.len = object]
               /\ gen' = [GEN0 EXCEPT !.st = "created"]
               /\ resp' = [resp EXCEPT !.pc = "done", !.ret = "HTTPResponse",
                                       !.content_length = resp.head]
          ELSE /\ resp' = [resp EXCEPT !.pc = "raise", !.exc = e]
               /\ UNCHANGED <<body, gen>>
    /\ UNCHANGED <<object, ctx>>
    /\ UNCHANGED notStream

\* the wrapper of s3_stream_response receives the exception of the body
s3_stream_response_wrapper ==
    /\ resp.pc = "raise"
    /\ IF retry_catches(resp.exc)
       THEN /\ resp.w.attempt < MaxAttempt
            /\ resp' = [resp EXCEPT !.pc = "head", !.exc = "none", !.head = -1,
                                    !.w = Invoke(retry_backoff(@, resp.exc))]
       ELSE resp' = [resp EXCEPT !.pc = "done", !.ret = resp.exc, !.exc = "none"]
    /\ UNCHANGED <<object, body, gen, ctx>>
    /\ UNCHANGED notStream

\* body.read(self.chunk_size): the bytes from the read position on, at most
\* chunk_size of them
body_read(b) == Min(chunk_size, b.len - b.pos)

\* the consumer of the response takes the next chunk: the generator runs to
\* its next yield; b'' ends the loop, and a read that raises leaves through
\* the finally clause, which closes the body
stream_next ==
    /\ gen.st \in {"created", "suspended"}
    /\ \/ \E e \in TransientErrors :
             /\ gen' = [gen EXCEPT !.st = "raised", !.exc = e]
             /\ body' = [body EXCEPT !.closed = TRUE]
       \/ LET n == body_read(body) IN
          IF n = 0
          THEN /\ gen' = [gen EXCEPT !.st = "exhausted"]
               /\ body' = [body EXCEPT !.closed = TRUE]
          ELSE /\ gen' = [gen EXCEPT !.st = "suspended",
                                     !.chunks = Append(@, [off |-> body.pos, len |-> n])]
               /\ body' = [body EXCEPT !.pos = @ + n]
    /\ UNCHANGED <<object, resp, ctx>>
    /\ UNCHANGED notStream

\* the consumer abandons the generator (close(), or the generator is
\* collected): a generator suspended at its yield leaves through the finally
\* clause; one that was never started has none of its body run
stream_close ==
    /\ gen.st \in {"created", "suspended"}
    /\ gen' = [gen EXCEPT !.st = "closed"]
    /\ body' = IF gen.st = "suspended" THEN [body EXCEPT !.closed = TRUE] ELSE body
    /\ UNCHANGED <<object, resp, ctx>>
    /\ UNCHANGED notStream

\* the caller invokes storage_tempfile: contextmanager makes the context
\* manager without running the body, and the wrapper returns it
storage_tempfile_call ==
    /\ ctx.pc = "idle"
    /\ ctx' = [CTX0 EXCEPT !.pc = "created", !.tries = 1]
    /\ UNCHANGED <<object, resp, body, gen>>
    /\ UNCHANGED notStream

\* with s3.storage_tempfile(rel) as tmp_path: the body runs to its yield;
\* mkstemp, then the download; an exception leaves through the finally
\* clause, which calls remove_tempfile, and reaches the with statement
storage_tempfile_enter ==
    /\ ctx.pc = "created"
    /\ \E e \in {"ok"} \cup RemoteErrors :
          IF e = "ok"
          THEN ctx' = [ctx EXCEPT !.pc = "entered", !.tmp_path = "file"]
          ELSE \E r \in remove_tempfile({"file"}, "file") :
                  ctx' = [ctx EXCEPT !.pc = "raised", !.exc = e,
                                     !.tmp_path = IF r.files = {} THEN "removed"
                                                                  ELSE "file"]
    /\ UNCHANGED <<object, resp, body, gen>>
    /\ UNCHANGED notStream

\* the with block ends: the finally clause calls remove_tempfile
storage_tempfile_exit ==
    /\ ctx.pc = "entered"
    /\ \E r \in remove_tempfile({"file"}, "file") :
          ctx' = [ctx EXCEPT !.pc = "exited",
                             !.tmp_path = IF r.files = {} THEN "removed" ELSE "file"]
    /\ UNCHANGED <<object, resp, body, gen>>
    /\ UNCHANGED notStream

StreamNext ==
    \/ overwrite
    \/ s3_stream_response_call
    \/ s3_stream_response_head
    \/ s3_stream_response_get
    \/ s3_stream_response_wrapper
    \/ stream_next
    \/ stream_close
    \/ storage_tempfile_call
    \/ storage_tempfile_enter
    \/ storage_tempfile_exit

---------------------------------------------------------------------------
(* The object key: download_image_list, storage_exists, storage_download *)

\* Python's s[a:b] for 0 <= a <= b
Slice_closed(s, a, b) == SubSeq(s, a + 1, Min(b + 1, Len(s)))
Slice(s, a, b) == SubSeq(s, a + 1, Min(b, Len(s)))

\* Python's s.lstrip(ch)
RECURSIVE lstrip(_, _)
lstrip(s, ch) == IF s # <<>> /\ s[1] = ch THEN lstrip(Tail(s), ch) ELSE s

\* def s3_key(self, p): return p.lstrip('/')
s3_key(path) == lstrip(path, "/")

\* rel_prefix = f"{collection}{os.sep}originals{os.sep}{rel[0:2]}{os.sep}{rel[2:4]}"
rel_prefix(c, f, sep) ==
    c \o <<sep, "originals", sep>> \o Slice(f, 0, 2) \o <<sep>> \o Slice(f, 2, 4)

\* rel_key = f"{rel_prefix}{os.sep}{rel}"
rel_key(c, f, sep) == rel_prefix(c, f, sep) \o <<sep>> \o f

\* full_key = f"{self.S3_PREFIX}/{rel}".lstrip("/")
full_key(prefix, r) == lstrip(prefix \o <<"/">> \o r, "/")

\* the strings of at most n characters over an alphabet
Strings(alphabet, n) == UNION {[1..k -> alphabet] : k \in 0..n}

KeyIdle ==
    /\ rel = <<>>
    /\ collection = <<>>
    /\ S3_PREFIX = <<>>
    /\ os_sep = "/"
    /\ kpc = "start"
    /\ exists_key = <<>>
    /\ download_key = <<>>

\* a leaf filename holds no separator and is not empty
KeyInit ==
    /\ rel \in Strings({"a", "b"}, MaxName) \ {<<>>}
    /\ collection \in Strings({"c", "/"}, MaxSeg)
    /\ S3_PREFIX \in Strings({"p", "/"}, MaxSeg)
    /\ os_sep \in {"/", "\\"}
    /\ kpc = "start"
    /\ exists_key = <<>>
    /\ download_key = <<>>

\* if not s3.storage_exists(rel_key): head_object(Key=self.s3_key(full_key))
key_storage_exists ==
    /\ kpc = "start"
    /\ exists_key' = s3_key(full_key(S3_PREFIX, rel_key(collection, rel, os_sep)))
    /\ kpc' = "probed"
    /\ UNCHANGED <<rel, collection, S3_PREFIX, os_sep, download_key>>
    /\ UNCHANGED notKey

\* s3.storage_download(rel_key): download_file(bucket, self.s3_key(full_key), ..)
key_storage_download ==
    /\ kpc = "probed"
    /\ download_key' = s3_key(full_key(S3_PREFIX, rel_key(collection, rel, os_sep)))
    /\ kpc' = "downloaded"
    /\ UNCHANGED <<rel, collection, S3_PREFIX, os_sep, exists_key>>
    /\ UNCHANGED notKey

KeyNext ==
    \/ key_storage_exists
    \/ key_storage_download

\* the client at rest, in the specifications of the other parts
ClientIdle == ClientInit /\ S3_ENDPOINT /\ bucket = "present"

InitOfClient ==
    ClientInit /\ WriteIdle /\ FetchIdle /\ CleanupIdle /\ StreamIdle /\ KeyIdle /\ SharedIdle
    /\ RaceIdle
SpecClient == InitOfClient /\ [][ClientNext]_vars

InitOfWrite ==
    ClientIdle /\ WriteInit /\ FetchIdle /\ CleanupIdle /\ StreamIdle /\ KeyIdle /\ SharedIdle
    /\ RaceIdle
SpecWrite == InitOfWrite /\ [][WriteNext]_vars

InitOfFetch ==
    ClientIdle /\ WriteIdle /\ FetchInit /\ CleanupIdle /\ StreamIdle /\ KeyIdle /\ SharedIdle
    /\ RaceIdle
SpecFetch == InitOfFetch /\ [][FetchNext]_vars

InitOfCleanup ==
    ClientIdle /\ WriteIdle /\ FetchIdle /\ CleanupInit /\ StreamIdle /\ KeyIdle /\ SharedIdle
    /\ RaceIdle
SpecCleanup == InitOfCleanup /\ [][CleanupNext]_vars

InitOfRelease ==
    ClientIdle /\ WriteIdle /\ FetchIdle /\ ReleaseInit /\ StreamIdle /\ KeyIdle /\ SharedIdle
    /\ RaceIdle
SpecRelease == InitOfRelease /\ [][ReleaseNext]_vars

InitOfShared ==
    ClientIdle /\ WriteIdle /\ FetchIdle /\ SharedInit /\ StreamIdle /\ KeyIdle
    /\ RaceIdle
SpecShared == InitOfShared /\ [][SharedNext]_vars

InitOfRace ==
    ClientIdle /\ WriteIdle /\ FetchIdle /\ CleanupIdle /\ StreamIdle /\ KeyIdle /\ SharedIdle
    /\ RaceInit
SpecRace == InitOfRace /\ [][RaceNext]_vars

InitOfStream ==
    ClientIdle /\ WriteIdle /\ FetchIdle /\ CleanupIdle /\ StreamInit /\ KeyIdle /\ SharedIdle
    /\ RaceIdle
SpecStream == InitOfStream /\ [][StreamNext]_vars

InitOfKey ==
    ClientIdle /\ WriteIdle /\ FetchIdle /\ CleanupIdle /\ StreamIdle /\ KeyInit /\ SharedIdle
    /\ RaceIdle
SpecKey == InitOfKey /\ [][KeyNext]_vars

---------------------------------------------------------------------------
(* Claims on the client *)

\* the wrapper that the caller's call entered
Top == IF op = "get_s3" THEN "gs" ELSE "op"

RECURSIVE SumSeq(_)
SumSeq(q) == IF q = <<>> THEN 0 ELSE q[1] + SumSeq(Tail(q))

\* C1 (as claimed): no wrapper sleeps and runs the method again after an
\* exception that is not one of the connection-level ones (an object that
\* is not found, a permission that is denied): such an exception reaches
\* the caller on the first attempt.
C1_NonTransientPropagates ==
    \A l \in {"op", "gs"} : w[l].attempt > 0 => ~w[l].other

\* C2: after N caught failures the wrapper has slept N times, the i-th sleep
\* being min(10*(i-1), 60); when the call returns the body has run exactly
\* N+1 times; a caught exception is never handed to the caller, whatever N.
C2_BackoffSchedule ==
    /\ \A l \in {"op", "gs"} :
          /\ Len(w[l].slept) = w[l].attempt
          /\ \A i \in 1..Len(w[l].slept) :
                w[l].slept[i] = (IF 10 * (i - 1) < 60 THEN 10 * (i - 1) ELSE 60)
          /\ SumSeq(w[l].slept) =
                SumSeq([i \in 1..w[l].attempt |->
                          IF 10 * (i - 1) < 60 THEN 10 * (i - 1) ELSE 60])
    /\ (pc = "done" /\ op # "none") =>
          /\ w[Top].tries = w[Top].attempt + 1
          /\ ret \notin TransientErrors

\* C2's case: eight connection-level failures, then storage_exists returns True
C2_Witness ==
    /\ pc = "done" /\ op = "storage_exists" /\ ret = "True"
    /\ w["op"].attempt = 8 /\ ~w["op"].other
    /\ w["op"].slept[8] = 60

\* C9 (as claimed): TMP_FOLDER never holds a file made by a failed attempt
\* of storage_download, and the path a successful call returns is in it.
C9_NoPartialArtifact ==
    /\ failed \cap TMP = {}
    /\ (pc = "done" /\ op = "storage_download" /\ ret = "path") => cur \in TMP

\* C9 (amended): a file made by a failed attempt is in TMP_FOLDER only if
\* os.remove raised OSError on it (logged and swallowed by remove_tempfile);
\* once the exception has left the attempt, remove_tempfile has been applied
\* to the attempt's file; the path a successful call returns is a file of
\* TMP_FOLDER that no failed attempt made.
C9_PartialOnlyIfRemoveFailed ==
    /\ (failed \cap TMP) \subseteq rmErr
    /\ (pc = "raise" /\ op = "storage_download" /\ S3_ENDPOINT) =>
          (cur \in failed /\ (cur \in TMP => cur \in rmErr))
    /\ (pc = "done" /\ op = "storage_download" /\ ret = "path") =>
          (cur \in TMP /\ cur \notin failed)

\* C9's case: an attempt failed, its file was deleted, and a later attempt of
\* the same call succeeded
C9_Witness ==
    /\ pc = "done" /\ op = "storage_download" /\ ret = "path"
    /\ w["op"].attempt >= 2
    /\ failed # {} /\ failed \cap TMP = {}
    /\ TMP = {cur}

\* C10 (as claimed): once creating the missing bucket (or the re-check after
\* it) has failed, no call of get_s3 on the instance returns the handle
\* unless a bucket check has succeeded.
C10_FatalNeverReady ==
    (fatal = "create" /\ ~bucketOk) => ~handed

---------------------------------------------------------------------------
(* Claims on the batch run and the transcoder *)

\* C3 (as claimed): the list a run returns holds, in input order, exactly
\* the filenames whose destination file this run wrote.
C3_ListIsWhatWasWritten ==
    status = "returned" =>
        downloaded_files = SelectSeq(rel_paths, LAMBDA k : k \in written)

\* C4 (as claimed): no exception raised while one filename is processed
\* leaves download_image_list; the run goes on and returns the list.
C4_NoItemAbortsTheRun ==
    status # "aborted"

AtCompressReturn(how) == fpc = "finish" /\ max_size_kb >= 0 /\ enc.how = how

\* C6 (as claimed, and granting that a copy of an encoded scratch file to the
\* destination succeeds): when compress_image_quality returns without any
\* pass within the budget, the destination holds the last encode made.
C6_FloorLeavesLastEncode ==
    (AtCompressReturn("floor") /\ ~(enc.passes >= 1 /\ enc.ok = "False")) =>
        (enc.passes >= 1 /\ out = <<"jpeg", enc.lastq>>)

\* the loop has stopped at the pass that is within the budget
StopsAtFirstFit ==
    /\ enc.fits <= 1
    /\ enc.fits = 1 =>
          /\ fpc \in {"fit", "finish"}
          /\ enc.lastBytes <= max_size_kb * 1024
          /\ fpc = "fit" => tmp_dir = <<"jpeg", enc.lastq>>
    /\ AtCompressReturn("fit") =>
          /\ enc.fits = 1
          /\ enc.passes = 1 => enc.lastq = quality

---------------------------------------------------------------------------
(* Claims on the scratch directories *)

Constructed(i) == inst[i].st = "live"
Siblings(i) == DirIds \ {OwnDir(i)}
AgeAtScan(i, d) == inst[i].now - s3_temp[d].mtime

\* C8 (as claimed): once an instance is constructed, every sibling directory
\* older than 2 x S3_URL_EXPIRY at its scan is removed, and it has removed
\* none that was younger.
C8_StaleSiblingsRemoved ==
    \A i \in Instances : Constructed(i) =>
        \A d \in Siblings(i) :
            /\ AgeAtScan(i, d) > 2 * inst[i].S3_URL_EXPIRY => ~s3_temp[d].exists
            /\ AgeAtScan(i, d) < 2 * inst[i].S3_URL_EXPIRY => d \notin inst[i].removed

\* C8 (amended): once an instance is constructed its scan has gone through
\* every sibling it listed: a sibling directory older than 2 x S3_URL_EXPIRY
\* at the scan is gone (removed by this scan, or by another process, which
\* the scan passes over) unless its rmtree raised an error other than
\* not-found, which is logged and passed over; the scan removed no
\* directory whose age was 2 x S3_URL_EXPIRY or less.
C8_StaleSiblingsReclaimed ==
    \A i \in Instances : Constructed(i) =>
        /\ inst[i].listing = {}
        /\ \A d \in Siblings(i) :
              /\ (AgeAtScan(i, d) > 2 * inst[i].S3_URL_EXPIRY /\ s3_temp[d].exists)
                    => d \in inst[i].failed
              /\ d \in inst[i].removed =>
                    (AgeAtScan(i, d) > 2 * inst[i].S3_URL_EXPIRY /\ ~s3_temp[d].exists)
              /\ AgeAtScan(i, d) <= 2 * inst[i].S3_URL_EXPIRY =>
                    d \notin inst[i].removed \cup inst[i].failed

\* C8's case: the scan of a new instance with an endpoint removed a sibling
\* older than the threshold and left one that is younger
C8_Witness ==
    \E i \in Instances :
        /\ Constructed(i) /\ inst[i].enabled
        /\ \E d \in inst[i].removed : AgeAtScan(i, d) = 2 * inst[i].S3_URL_EXPIRY + 1
        /\ \E d \in StaleDirs :
              s3_temp[d].exists /\ AgeAtScan(i, d) = 2 * inst[i].S3_URL_EXPIRY - 1

---------------------------------------------------------------------------
(* Claims on the bounded-retry local write *)

GaveUp == cw.pc = "done" /\ cw.result = "False"

\* C5 (as claimed): a write that gives up has made at least one attempt and
\* the time since the call started is then >= max_total_wait and
\* < max_total_wait + delay.
C5_ElapsedWithinOneDelay ==
    GaveUp =>
        /\ cw.attempt >= 1
        /\ cw.elapsed >= cw.max_total_wait
        /\ cw.elapsed < cw.max_total_wait + cw.delay

\* C5 (amended): a write that fails on every attempt stops after at most
\* 1 + ceil(max_total_wait / delay) attempts; when it gives up it has made at
\* least one attempt, the time since the call started is >= max_total_wait,
\* and, if it retried, the time measured at the failure before was still
\* < max_total_wait: the time exceeds max_total_wait by less than the last
\* sleep (at least delay) plus the duration of the last attempt.
C5_ElapsedBound ==
    /\ (cw.attempt >= 2) => (cw.attempt - 2) * cw.delay < cw.max_total_wait
    /\ GaveUp =>
          /\ cw.attempt >= 1
          /\ cw.elapsed >= cw.max_total_wait
          /\ cw.elapsed = clock - cw.start
          /\ (cw.attempt >= 2) =>
                /\ cw.prev < cw.max_total_wait
                /\ cw.elapsed = cw.prev + cw.gap
                /\ cw.elapsed < cw.max_total_wait + cw.gap
                /\ cw.gap >= cw.delay

\* C5's case: every attempt failed and the write gave up after retrying
C5_Witness ==
    /\ GaveUp
    /\ cw.attempt >= 3
    /\ cw.max_total_wait > 0

---------------------------------------------------------------------------
(* Claims on the streamed response and the scoped download *)

\* C11 (as claimed): no connection-level error of the store reaches the
\* caller of a wrapped operation: not the caller of s3_stream_response, not
\* the consumer of the chunks of stream, not the with statement of
\* storage_tempfile.
C11_TransientNeverSurfaces ==
    /\ resp.ret \notin TransientErrors
    /\ gen.exc \notin TransientErrors
    /\ ctx.exc \notin TransientErrors

---------------------------------------------------------------------------
(* Claims on a connection without an endpoint *)

\* what each method hands its caller on a connection without an endpoint
DisabledResult(o) ==
    CASE o = "storage_exists"   -> "False"
      [] o = "storage_url"      -> "None"
      [] o = "get_s3"           -> "RuntimeError"
      [] o = "storage_save"     -> "RuntimeError"
      [] o = "storage_delete"   -> "HTTPError"
      [] o = "storage_download" -> "AttributeError"

Delivered == SumSeq([i \in 1..Len(gen.chunks) |-> gen.chunks[i].len])

\* C13 (as claimed): once the generator of stream is exhausted, has raised or
\* was abandoned by its consumer, the body is closed; the chunks follow one
\* another from the start of the content, each but the last has chunk_size
\* bytes, none is empty, and on exhaustion they make up the whole content.
C13_BodyClosedChunksExact ==
    /\ gen.st \in {"exhausted", "raised", "closed"} => body.closed
    /\ \A i \in 1..Len(gen.chunks) :
          /\ gen.chunks[i].len > 0
          /\ i < Len(gen.chunks) => gen.chunks[i].len = chunk_size
          /\ gen.chunks[i].off = (i - 1) * chunk_size
    /\ gen.st = "exhausted" => Delivered = body.len

\* C14 (as claimed): the Content-Length header of a response equals the
\* number of bytes its body delivers, whatever other clients do to the
\* object while the response is built.
C14_ContentLengthIsBodyLength ==
    /\ resp.ret = "HTTPResponse" => resp.content_length = body.len
    /\ (resp.ret = "HTTPResponse" /\ gen.st = "exhausted") =>
          Delivered = resp.content_length

---------------------------------------------------------------------------
(* Claims on the object key *)

\* the segments of a key, joined by sep, the prefix left out when empty
Layout(prefix, c, f, sep) ==
    (IF prefix = <<>> THEN <<>> ELSE prefix \o <<"/">>)
    \o c \o <<sep, "originals", sep>>
    \o [i \in 1..Min(2, Len(f)) |-> f[i]] \o <<sep>>
    \o [i \in 1..Min(2, IF Len(f) > 2 THEN Len(f) - 2 ELSE 0) |-> f[i + 2]]
    \o <<sep>> \o f

\* s is t without the "/" characters t starts with
Stripped(s, t) ==
    \E k \in 0..Len(t) :
        /\ \A i \in 1..k : t[i] = "/"
        /\ s = SubSeq(t, k + 1, Len(t))
        /\ s # <<>> => s[1] # "/"

\* C15 (as claimed): the key probed and the key downloaded are both
\* S3_PREFIX/collection/originals/rel[0:2]/rel[2:4]/rel, the prefix left out
\* when empty.
C15_KeyLayout ==
    /\ kpc \in {"probed", "downloaded"} =>
          exists_key = Layout(S3_PREFIX, collection, rel, "/")
    /\ kpc = "downloaded" =>
          download_key = Layout(S3_PREFIX, collection, rel, "/")

\* C15 (amended): the key probed and the key downloaded are the same; it is
\* S3_PREFIX/collection<sep>originals<sep>rel[0:2]<sep>rel[2:4]<sep>rel,
\* the prefix left out when empty, <sep> being os.sep, with the "/"
\* characters at its start removed: where os.sep is "/" and that string
\* does not start with "/" it is the key as claimed.
C15_KeyLayoutStripped ==
    /\ kpc \in {"probed", "downloaded"} =>
          /\ Stripped(exists_key, Layout(S3_PREFIX, collection, rel, os_sep))
          /\ (os_sep = "/" /\ Layout(S3_PREFIX, collection, rel, "/")[1] # "/") =>
                exists_key = Layout(S3_PREFIX, collection, rel, "/")
    /\ kpc = "downloaded" => download_key = exists_key

\* C15's case: a filename of four characters under a prefix and a
\* collection, probed and downloaded with the claimed key
C15_Witness ==
    /\ kpc = "downloaded"
    /\ rel = <<"a", "b", "b", "a">>
    /\ S3_PREFIX = <<"p">> /\ collection = <<"c">> /\ os_sep = "/"
    /\ download_key = <<"p", "/", "c", "/", "originals", "/", "a", "b", "/",
                        "b", "a", "/", "a", "b", "b", "a">>

---------------------------------------------------------------------------
(* Claims on the descent of the quality *)

InCompress == max_size_kb >= 0 /\ fpc \in {"encode", "fit", "finish"}

\* C16 (as claimed): the quality never goes up between encode passes, and
\* compress_image_quality makes at most start_quality - 20 passes.
C16_PassesWithinStartMinusFloor ==
    InCompress =>
        /\ img_quality <= quality
        /\ enc.passes >= 1 => img_quality <= enc.lastq
        /\ enc.passes <= quality - 20

\* C16 (amended): the quality never goes up between encode passes (each pass
\* is at least 1 below the one before), and compress_image_quality makes at
\* most start_quality - 20 passes when the start quality is above 20 and none
\* when it is 20 or less.
C16_PassesBounded ==
    InCompress =>
        /\ img_quality <= quality
        /\ enc.passes >= 1 =>
              /\ img_quality <= enc.lastq
              /\ enc.lastq <= quality - (enc.passes - 1)
        /\ enc.passes <= (IF quality > 20 THEN quality - 20 ELSE 0)

\* C16's case: the descent took every quality from the start down to 21
C16_Witness ==
    /\ AtCompressReturn("floor")
    /\ enc.passes = quality - 20
    /\ enc.passes >= 3
    /\ enc.lastq = 21

\* C17: after a pass at quality q over the budget the next quality is q - 5
\* if the size is more than 300 KB over the budget and q - 1 otherwise; every
\* pass made was at a quality above 20, and so is every encode on disk.
C17_DecrementRule ==
    InCompress =>
        /\ enc.passes >= 1 => enc.lastq > 20
        /\ tmp_dir[1] = "jpeg" => tmp_dir[2] > 20
        /\ (enc.passes >= 1 /\ fpc = "encode") =>
              /\ enc.lastBytes > max_size_kb * 1024
              /\ img_quality = IF enc.lastBytes > (max_size_kb + 300) * 1024
                               THEN enc.lastq - 5 ELSE enc.lastq - 1

\* C17's case: a pass more than 300 KB over the budget, then one exactly
\* 300 KB over it
C17_Witness ==
    /\ InCompress /\ fpc = "encode"
    /\ enc.passes = 2
    /\ enc.lastq = quality - 5
    /\ enc.lastBytes = (max_size_kb + 300) * 1024
    /\ img_quality = quality - 6

---------------------------------------------------------------------------
(* Claims on the life of the handle *)

\* C18 (as claimed): when a wrapper has caught a connection-level error of a
\* remote operation and is about to run its method again, self._s3 is None
\* again, so that the next get_s3 makes a new client.
C18_FailureDiscardsHandle ==
    /\ (pc = "func" /\ w["op"].attempt > 0 /\ w["op"].last \in TransientErrors)
          => s3h = "None"
    /\ (pc = "get_s3" /\ w["gs"].attempt > 0 /\ w["gs"].last \in TransientErrors)
          => s3h = "None"

\* C19 (as claimed): get_s3 has handed the handle to a caller only if a
\* head_bucket made through the handle has succeeded.
C19_HandedOnlyAfterBucketCheck ==
    handed => bucketOk

---------------------------------------------------------------------------
(* Claims on the release of the own directory *)

Own == OwnDir(Releaser)
Released == inst[Releaser].returned >= 1

\* C20 (as claimed): no call of cleanup_temp_folder lets an exception out,
\* and once the first of the later calls has returned the own directory is
\* absent.
C20_AbsentAfterFirstRelease ==
    /\ inst[Releaser].st # "raised"
    /\ Released => ~s3_temp[Own].exists

\* C20 (amended): no call of cleanup_temp_folder lets an exception out; once
\* a later call has removed the own directory it stays absent through every
\* further call; after a call the directory is still there only if its
\* rmtree raised in that call, which was logged, and the next call tries
\* again.
C20_ReleaseSwallowsAndStays ==
    /\ inst[Releaser].st # "raised"
    /\ inst[Releaser].own_removed => ~s3_temp[Own].exists
    /\ (Released /\ inst[Releaser].st = "live" /\ s3_temp[Own].exists) =>
          (inst[Releaser].own_failed /\ ~inst[Releaser].own_removed)
    /\ inst[Releaser].returned <= Cardinality(inst[Releaser].fired)

\* C20's case: all three callers have called and returned, the first found
\* the directory and removed it
C20_Witness ==
    /\ inst[Releaser].enabled
    /\ inst[Releaser].st = "live"
    /\ inst[Releaser].fired = Triggers
    /\ inst[Releaser].returned = 3
    /\ inst[Releaser].own_removed /\ ~inst[Releaser].own_failed
    /\ ~s3_temp[Own].exists

---------------------------------------------------------------------------
(* Claims on the release of the downloaded file *)

\* C21 (as claimed, and granting that os.remove succeeds where
\* remove_tempfile is called): whenever the loop of download_image_list
\* leaves a filename for the next, the file storage_download made for it is
\* no longer in TMP_FOLDER.
C21_EveryPathReleases ==
    [][(Running /\ idx' = idx + 1 /\ fpc \notin {"skip", "copy", "finish"})
          => rel_paths[idx] \notin s3tmp']_vars

---------------------------------------------------------------------------
(* Claims on instances that share s3_temp *)

\* C22 (as claimed): the directory of an instance that another process still
\* uses is there, whatever instances are constructed and released beside it.
C22_LiveDirectoryStays ==
    \A d \in live : s3_temp[d].exists

---------------------------------------------------------------------------
(* Claims on concurrent runs in one working directory *)

\* C23 (as claimed): when a run's compress_image_quality has found an encode
\* within its budget and copy_with_retry has returned True, the file at the
\* run's output_file_path is the run's own encode at the quality it stopped at.
C23_DestinationIsOwnEncode ==
    \A r \in DOMAIN runs :
        (runs[r].fit /\ runs[r].ok = "True")
            => /\ runs[r].output_file_path[1] = "jpeg"
               /\ runs[r].output_file_path[2] = r
               /\ runs[r].output_file_path[3] = runs[r].img_quality

====
